---- MODULE Spec2Model ----
(***************************************************************************)
(* Retrieval core of CryptoInsightAI: the in-memory vector store           *)
(* (core/vector_store.py), the standalone similarity primitive and its     *)
(* embedder (core/cosine_similarity.py), the context assembler and the     *)
(* embedding step of the RAG pipeline (core/rag_pipeline.py,               *)
(* core/embedding.py), the prompt composer (core/dynamic_prompting.py,     *)
(* core/prompting.py) and the generation step with its offline substitute  *)
(* (core/zero_shot_prompting.py).                                          *)
(*                                                                         *)
(* Numbers.  Embedding components are integers.  A similarity score        *)
(* dot/(|a|*|b|) is the record [sgn, num, den, err]: sgn * sqrt(num/den),  *)
(* with num/den in lowest terms, is the real quotient, and err is the      *)
(* number of doubles by which the double that the code computes lies       *)
(* above (below, if negative) the double nearest to the real quotient, in  *)
(* magnitude.  Two scores are the same double iff their records are equal. *)
(*                                                                         *)
(* Text.  Strings are TLA+ strings; a text that the code trims is a        *)
(* sequence of one-character strings until it has been trimmed.            *)
(***************************************************************************)
EXTENDS Integers, Sequences, FiniteSets, TLC

VARIABLES
    store,      \* vector_store._store: sequence of [embedding, metadata]
    sQuery,     \* query_embedding of the call just made, if it was a search
    sK,         \* top_k of that call
    sResults,   \* the list that call returned (clear and add return None)
    op,         \* the call just made
    ctxIn,      \* build_context_from_results: its argument
    ctxOut,     \* build_context_from_results: its locals when it returns
    cosIn,      \* cosine_similarity.cosine_similarity: <<vec_a, vec_b>>
    cosOut,     \* what that call returned or raised
    env,        \* the process environment: OPENAI_API_KEY set?, OPENAI_MODEL
    ragOut,     \* how the last add_document / query_with_rag call ended
    args,       \* the arguments of the prompting or embedding call under study
    result,     \* what that call returned
    added       \* the (embedding, metadata) pairs given to
                \* add_document_embedding since the last clear()

vars == <<store, sQuery, sK, sResults, op, ctxIn, ctxOut, cosIn, cosOut, env, ragOut,
          args, result, added>>

(***************************************************************************)
(* Bounds of the model                                                     *)
(***************************************************************************)
MaxStore == 3
MaxResults == 3
MaxDim == 2
MaxDocs == 2

(***************************************************************************)
(* Python values.  What dict.get gives for a metadata key is <<>> for None *)
(* (the key absent, or None stored) and <<v>> for the value v.  A score    *)
(* is a score triple or NoneScore.                                         *)
(***************************************************************************)
Absent == <<>>
NoneScore == [none |-> TRUE]

(***************************************************************************)
(* Arithmetic helpers                                                      *)
(***************************************************************************)
Sign(n) == IF n < 0 THEN -1 ELSE IF n = 0 THEN 0 ELSE 1
Min(a, b) == IF a <= b THEN a ELSE b
Max(a, b) == IF a >= b THEN a ELSE b

RECURSIVE GCD(_, _)
GCD(a, b) == IF b = 0 THEN a ELSE GCD(b, a % b)

\* sum(x * y for x, y in zip(a, b)): zip stops at the shorter vector
RECURSIVE Dot(_, _)
Dot(a, b) ==
    IF a = <<>> \/ b = <<>> THEN 0
    ELSE Head(a) * Head(b) + Dot(Tail(a), Tail(b))

\* sum(x * x for x in a), the square of the norm
NormSq(a) == Dot(a, a)

\* the float 0.0
Zero == [sgn |-> 0, num |-> 0, den |-> 1, err |-> 0]

\* the rounding of math.sqrt, * and / in dot / (norm_a * norm_b): the doubles
\* between the computed quotient and the double nearest to the real one, for
\* d = |dot| and the squared norms lo <= hi.  The values are those of IEEE
\* double arithmetic for squared norms up to 3 and for the vector [3, 3]
\* against vectors of components -1, 0, 1, the range the vectors of this
\* model stay in; e.g. 2 / (sqrt(2) * sqrt(2)) is 0.9999999999999998 and
\* 3 / (sqrt(3) * sqrt(3)) is 1.0000000000000002.
RoundingError(d, lo, hi) ==
    IF lo = 1 THEN (IF d = 1 /\ hi = 2 THEN -1 ELSE IF d = 1 /\ hi = 3 THEN 1 ELSE 0)
    ELSE IF lo = 2
         THEN (IF hi = 2 /\ d \in {1, 2} THEN -2
               ELSE IF hi = 3 /\ d \in {1, 2} THEN -1 ELSE 0)
    ELSE IF lo = 3 THEN (IF hi = 3 /\ d \in {1, 2, 3} THEN 1 ELSE 0)
    ELSE IF lo = 18 /\ hi = 18 /\ d = 18 THEN 1
    ELSE 0

\* dot / (norm_a * norm_b) for norm_a, norm_b > 0
Quotient(dot, nsqA, nsqB) ==
    IF dot = 0 THEN Zero
    ELSE LET g == GCD(dot * dot, nsqA * nsqB)
         IN  [sgn |-> Sign(dot), num |-> (dot * dot) \div g,
              den |-> (nsqA * nsqB) \div g,
              err |-> RoundingError(Sign(dot) * dot, Min(nsqA, nsqB), Max(nsqA, nsqB))]

\* s <= t on scores: x -> sgn(x) * x^2 is increasing, and of two scores with
\* the same real quotient the rounding decides
ScoreLeq(s, t) ==
    LET l == s.sgn * s.num * t.den
        r == t.sgn * t.num * s.den
    IN  l < r \/ (l = r /\ s.sgn * s.err <= t.sgn * t.err)

(***************************************************************************)
(* core/vector_store.py                                                    *)
(***************************************************************************)
\* _cosine_similarity without the length test: zip truncates silently
CosineNoLengthCheck(vec_a, vec_b) ==
    IF Len(vec_a) = 0 \/ Len(vec_b) = 0 THEN Zero
    ELSE IF NormSq(vec_a) = 0 \/ NormSq(vec_b) = 0 THEN Zero
    ELSE Quotient(Dot(vec_a, vec_b), NormSq(vec_a), NormSq(vec_b))

_cosine_similarity(vec_a, vec_b) ==
    IF Len(vec_a) = 0 \/ Len(vec_b) = 0 \/ Len(vec_a) # Len(vec_b) THEN Zero
    ELSE IF NormSq(vec_a) = 0 \/ NormSq(vec_b) = 0 THEN Zero
    ELSE Quotient(Dot(vec_a, vec_b), NormSq(vec_a), NormSq(vec_b))

Reverse(s) == [i \in 1..Len(s) |-> s[Len(s) + 1 - i]]

\* x put behind every element of the ascending sequence s that is <= x
RECURSIVE InsertStable(_, _)
InsertStable(s, x) ==
    IF s = <<>> THEN <<x>>
    ELSE IF ScoreLeq(s[Len(s)].score, x.score) THEN Append(s, x)
    ELSE Append(InsertStable(SubSeq(s, 1, Len(s) - 1), x), s[Len(s)])

\* a stable ascending sort by "score" (list.sort is stable)
RECURSIVE SortAscending(_)
SortAscending(s) ==
    IF s = <<>> THEN <<>>
    ELSE InsertStable(SortAscending(SubSeq(s, 1, Len(s) - 1)), s[Len(s)])

\* sorting ascending and reversing the outcome: equal keys come out reversed
SortThenReverse(s) == Reverse(SortAscending(s))

\* the list left as appended
NoSort(s) == s

\* list.sort(key=score, reverse=True): descending, and equal keys keep their
\* original order (CPython reverses, sorts stably, reverses again)
SortDescending(s) == Reverse(SortAscending(Reverse(s)))

\* s[:stop] for an int stop, negative stops counting from the end
PySliceTo(s, stop) ==
    LET e == IF stop < 0 THEN Max(Len(s) + stop, 0) ELSE Min(stop, Len(s))
    IN  SubSeq(s, 1, e)

\* the loop of search_similar: one scored entry per stored item, in store
\* order ("rec" is the position of the item, carried for the properties only)
Scored(st, query_embedding) ==
    [i \in 1..Len(st) |->
        [score |-> _cosine_similarity(query_embedding, st[i].embedding),
         metadata |-> st[i].metadata, rec |-> i]]

\* scored[:top_k], without max(top_k, 0)
SliceUnclamped(scored, top_k) == PySliceTo(scored, top_k)

TopSlice(scored, top_k) == PySliceTo(scored, Max(top_k, 0))

search_similar(st, query_embedding, top_k) ==
    TopSlice(SortDescending(Scored(st, query_embedding)), top_k)

(***************************************************************************)
(* Inputs of the vector store                                              *)
(***************************************************************************)
StoredVecs == {<<1>>, <<0, 0>>, <<1, 0>>, <<-1, 1>>}
QueryVecs == {<<>>, <<0, 0>>, <<1, 0>>, <<1, 1>>}
StoreMetas == {"m1", "m2"}
TopKs == (-1)..(MaxStore + 1)

NoContext == [context |-> ""]

\* how a call ends: it returns a value, or an exception leaves it
Return(v) == [raised |-> FALSE, value |-> v]
Raise(exc) == [raised |-> TRUE, exc |-> exc]

NoCall == [raised |-> FALSE]
NoEnv == [key |-> FALSE, model |-> "gpt-4o-mini"]

Init ==
    /\ store = <<>>
    /\ sQuery = <<>>
    /\ sK = 0
    /\ sResults = <<>>
    /\ op = "init"
    /\ ctxIn = <<>>
    /\ ctxOut = NoContext
    /\ cosIn = <<>>
    /\ cosOut = NoCall
    /\ env = NoEnv
    /\ ragOut = NoCall
    /\ args = <<>>
    /\ result = NoCall
    /\ added = <<>>

Clear ==
    /\ store' = <<>>
    /\ added' = <<>>
    /\ op' = "clear"
    /\ sQuery' = <<>> /\ sK' = 0 /\ sResults' = <<>>
    /\ UNCHANGED <<ctxIn, ctxOut, cosIn, cosOut, env, ragOut, args, result>>

AddDocumentEmbedding ==
    \E embedding \in StoredVecs, metadata \in StoreMetas :
        /\ Len(store) < MaxStore
        /\ store' = Append(store, [embedding |-> embedding, metadata |-> metadata])
        /\ added' = Append(added, <<embedding, metadata>>)
        /\ op' = "add"
        /\ sQuery' = <<>> /\ sK' = 0 /\ sResults' = <<>>
        /\ UNCHANGED <<ctxIn, ctxOut, cosIn, cosOut, env, ragOut, args, result>>

\* a search that sorts _store itself rather than the scored list
SearchSimilarSortingStore ==
    \E query_embedding \in QueryVecs, top_k \in TopKs :
        LET sorted == SortDescending(Scored(store, query_embedding))
        IN  /\ sQuery' = query_embedding
            /\ sK' = top_k
            /\ sResults' = TopSlice(sorted, top_k)
            /\ op' = "search"
            /\ store' = [i \in 1..Len(store) |-> store[sorted[i].rec]]
            /\ UNCHANGED <<ctxIn, ctxOut, cosIn, cosOut, env, ragOut, args, result, added>>

SearchSimilar ==
    \E query_embedding \in QueryVecs, top_k \in TopKs :
        /\ sQuery' = query_embedding
        /\ sK' = top_k
        /\ sResults' = search_similar(store, query_embedding, top_k)
        /\ op' = "search"
        /\ UNCHANGED <<store, ctxIn, ctxOut, cosIn, cosOut, env, ragOut, args, result, added>>

NextStore == Clear \/ AddDocumentEmbedding \/ SearchSimilar

SpecStore == Init /\ [][NextStore]_vars

(***************************************************************************)
(* Properties of search_similar                                            *)
(***************************************************************************)
Searched == op = "search"

\* the score the store's similarity gives stored record i for the last query
StoredScore(i) == _cosine_similarity(sQuery, store[i].embedding)

Returned == {sResults[i].rec : i \in 1..Len(sResults)}

\* C1: the scores of the returned sequence are non-increasing from first to
\* last, for every store content, query embedding and top_k.
C1_ScoresNonIncreasing ==
    Searched =>
        \A i \in 1..(Len(sResults) - 1) :
            ScoreLeq(sResults[i + 1].score, sResults[i].score)

\* a search whose ranking differs from the insertion order: three results
\* with three different scores, the first of them added last
C1_Witness ==
    /\ Searched
    /\ Len(sResults) = 3
    /\ ~ScoreLeq(sResults[1].score, sResults[2].score)
    /\ ~ScoreLeq(sResults[2].score, sResults[3].score)
    /\ sResults[1].rec = 3

\* C2: a search returns exactly min(max(k, 0), N) results, each the score
\* and metadata of a different stored record, and no record left out scores
\* higher than a returned one (so k <= 0 and the empty store give the empty
\* sequence, and k > N gives all N records).
C2_TopK ==
    Searched =>
        /\ Len(sResults) = Min(Max(sK, 0), Len(store))
        /\ \A i \in 1..Len(sResults) :
              /\ sResults[i].rec \in 1..Len(store)
              /\ sResults[i].metadata = store[sResults[i].rec].metadata
              /\ sResults[i].score = StoredScore(sResults[i].rec)
        /\ \A i, j \in 1..Len(sResults) :
              i # j => sResults[i].rec # sResults[j].rec
        /\ \A i \in 1..Len(sResults) :
              \A j \in (1..Len(store)) \ Returned :
                  ScoreLeq(StoredScore(j), sResults[i].score)
        /\ (sK <= 0 => sResults = <<>>)
        /\ (sK > Len(store) => Returned = 1..Len(store))
        /\ (store = <<>> => sResults = <<>>)

\* a search that had to choose: one result out of three records, the best
\* of them not the first one added
C2_Witness ==
    /\ Searched
    /\ Len(store) = 3
    /\ sK = 1
    /\ Len(sResults) = 1
    /\ sResults[1].rec # 1
    /\ \E j \in 1..3 : ~ScoreLeq(sResults[1].score, StoredScore(j))

\* C3: two returned records with equal scores appear in the order in which
\* they were added to the store.
C3_StableTieBreak ==
    Searched =>
        \A i, j \in 1..Len(sResults) :
            (i < j /\ sResults[i].score = sResults[j].score)
                => sResults[i].rec < sResults[j].rec

\* a tie that the sort had to move: two equal non-zero scores, returned
\* behind a record that was added after both
C3_Witness ==
    /\ Searched
    /\ Len(sResults) = 3
    /\ sResults[2].score = sResults[3].score
    /\ sResults[2].score # Zero
    /\ sResults[2].metadata # sResults[3].metadata
    /\ sResults[1].rec = 3

ZeroNorm(v) == \A i \in 1..Len(v) : v[i] = 0

\* C5: a stored embedding whose length differs from the query's, or either
\* vector of zero norm, scores exactly 0.0, and a search over such a store
\* still returns a result for every record it ranks.
C5_StoreZeroSafe ==
    Searched =>
        /\ \A i \in 1..Len(sResults) :
              LET e == store[sResults[i].rec].embedding
              IN  (Len(e) # Len(sQuery) \/ ZeroNorm(e) \/ ZeroNorm(sQuery))
                      => sResults[i].score = Zero
        /\ (sK >= Len(store) => Returned = 1..Len(store))

\* a search of a store holding a shorter embedding, a zero vector and a
\* record that does score, all three returned
C5_Witness ==
    /\ Searched
    /\ Len(sResults) = 3
    /\ \E i \in 1..3 : Len(store[i].embedding) # Len(sQuery)
    /\ \E i \in 1..3 : Len(store[i].embedding) = Len(sQuery)
                         /\ ZeroNorm(store[i].embedding)
    /\ sResults[1].score # Zero
    /\ ~ZeroNorm(sQuery)

(***************************************************************************)
(* Text helpers                                                            *)
(***************************************************************************)
\* sep.join(parts)
RECURSIVE JoinStr(_, _)
JoinStr(parts, sep) ==
    IF parts = <<>> THEN ""
    ELSE IF Len(parts) = 1 THEN parts[1]
    ELSE parts[1] \o sep \o JoinStr(Tail(parts), sep)

Whitespace == {" ", "\n", "\t"}

RECURSIVE LStrip(_)
LStrip(chars) ==
    IF chars # <<>> /\ Head(chars) \in Whitespace THEN LStrip(Tail(chars))
    ELSE chars

RECURSIVE RStrip(_)
RStrip(chars) ==
    IF chars # <<>> /\ chars[Len(chars)] \in Whitespace
    THEN RStrip(SubSeq(chars, 1, Len(chars) - 1))
    ELSE chars

\* str.strip()
Strip(chars) == RStrip(LStrip(chars))

\* floor of the square root of n, between lo and hi
RECURSIVE Bisect(_, _, _)
Bisect(n, lo, hi) ==
    IF lo = hi THEN lo
    ELSE LET mid == (lo + hi + 1) \div 2
         IN  IF mid * mid <= n THEN Bisect(n, mid, hi) ELSE Bisect(n, lo, mid - 1)

Pad4(n) ==
    IF n < 10 THEN "000" \o ToString(n)
    ELSE IF n < 100 THEN "00" \o ToString(n)
    ELSE IF n < 1000 THEN "0" \o ToString(n)
    ELSE ToString(n)

\* |score| * 10^4 rounded to the nearest integer, ties to even.  With
\* 10^8 = q * den + r, 10^8 * num / den = q * num + (r * num) / den.
Round4(score) ==
    LET q == 100000000 \div score.den
        r == 100000000 % score.den
        F == q * score.num + (r * score.num) \div score.den
        e == (r * score.num) % score.den
        f == Bisect(F, 0, 46340)
        up == \/ F > f * f + f
              \/ F = f * f + f /\ 4 * e > score.den
              \/ F = f * f + f /\ 4 * e = score.den /\ f % 2 = 1
    IN  IF up THEN f + 1 ELSE f

\* |score| * 10^4 with the digits behind the fourth cut off
Trunc4(score) ==
    LET q == 100000000 \div score.den
        r == 100000000 % score.den
        F == q * score.num + (r * score.num) \div score.den
    IN  Bisect(F, 0, 46340)

Fmt4Of(score, n) ==
    (IF score.sgn < 0 THEN "-" ELSE "")
        \o ToString(n \div 10000) \o "." \o Pad4(n % 10000)

\* f"{score:.4f}" with the last digit not rounded
Fmt4Truncating(score) == Fmt4Of(score, Trunc4(score))

\* f"{score:.4f}"
Fmt4(score) == Fmt4Of(score, Round4(score))

(***************************************************************************)
(* core/rag_pipeline.py: the context assembler                             *)
(***************************************************************************)
\* x or default, for x a str or None
OrDefault(x, default) == IF x = Absent \/ x = <<"">> THEN default ELSE x[1]

\* the dedup key taken after the display placeholders are put in
KeyDisplayed(m) ==
    <<<<OrDefault(m.source, "unknown source")>>, <<OrDefault(m.id, "-")>>>>

\* key = (m.get("source"), m.get("id"))
Key(m) == <<m.source, m.id>>

InSeq(x, seq) == \E n \in 1..Len(seq) : seq[n] = x

\* the loop body of _format_source_list with "i += 1" outside the if
SourceStepCountingAll(acc, r) ==
    LET m == r.metadata
        key == Key(m)
        label == "[" \o ToString(acc.i) \o "]"
    IN  IF InSeq(key, acc.seen) THEN [acc EXCEPT !.i = acc.i + 1]
        ELSE [seen |-> Append(acc.seen, key),
              idx_map |-> (key :> label) @@ acc.idx_map,
              lines |-> Append(acc.lines,
                               label \o " " \o OrDefault(m.source, "unknown source")
                                   \o " (id: " \o OrDefault(m.id, "-") \o ")"),
              i |-> acc.i + 1]

\* the loop body of _format_source_list
SourceStep(acc, r) ==
    LET m == r.metadata
        key == Key(m)
        label == "[" \o ToString(acc.i) \o "]"
    IN  IF InSeq(key, acc.seen) THEN acc
        ELSE [seen |-> Append(acc.seen, key),
              idx_map |-> (key :> label) @@ acc.idx_map,
              lines |-> Append(acc.lines,
                               label \o " " \o OrDefault(m.source, "unknown source")
                                   \o " (id: " \o OrDefault(m.id, "-") \o ")"),
              i |-> acc.i + 1]

\* the loop with its counter started at 0
RECURSIVE SourceLoopFromZero(_)
SourceLoopFromZero(results) ==
    IF results = <<>> THEN [seen |-> <<>>, idx_map |-> <<>>, lines |-> <<>>, i |-> 0]
    ELSE SourceStep(SourceLoopFromZero(SubSeq(results, 1, Len(results) - 1)),
                    results[Len(results)])

RECURSIVE SourceLoop(_)
SourceLoop(results) ==
    IF results = <<>> THEN [seen |-> <<>>, idx_map |-> <<>>, lines |-> <<>>, i |-> 1]
    ELSE SourceStep(SourceLoop(SubSeq(results, 1, Len(results) - 1)),
                    results[Len(results)])

_format_source_list(results) ==
    LET acc == SourceLoop(results)
    IN  [block |-> JoinStr(acc.lines, "\n"), idx_map |-> acc.idx_map,
         lines |-> acc.lines]

\* tag = idx_map.get(key, "[?]")
Tag(idx_map, m) ==
    IF Key(m) \in DOMAIN idx_map THEN idx_map[Key(m)] ELSE "[?]"

\* the content as stored, not trimmed
SnippetUntrimmed(m) ==
    IF m.content = Absent THEN "" ELSE JoinStr(m.content[1], "")

\* snippet = (m.get("content") or "").strip()
Snippet(m) ==
    IF m.content = Absent THEN "" ELSE JoinStr(Strip(m.content[1]), "")

\* isinstance(score, (int, float))
IsNumeric(score) == "sgn" \in DOMAIN score

\* header = f"{tag} Score={score:.4f}" if isinstance(...) else f"{tag}"
Header(tag, score) ==
    IF IsNumeric(score) THEN tag \o " Score=" \o Fmt4(score) ELSE tag

\* "\n\n---\n\n".join(parts), the placeholder forgotten
ChunksJoinedOnly(parts) == JoinStr(parts, "\n\n---\n\n")

\* chunks = "\n\n---\n\n".join(parts) if parts else "(no relevant context found)"
Chunks(parts) ==
    IF parts # <<>> THEN JoinStr(parts, "\n\n---\n\n")
    ELSE "(no relevant context found)"

build_context_from_results(results) ==
    LET sl == _format_source_list(results)
        tags == [n \in 1..Len(results) |-> Tag(sl.idx_map, results[n].metadata)]
        parts == [n \in 1..Len(results) |->
                     Header(tags[n], results[n].score) \o "\n"
                         \o Snippet(results[n].metadata)]
        chunks == Chunks(parts)
        sources == IF sl.block # "" THEN sl.block ELSE "(none)"
    IN  [context |-> "Retrieved Context (top matches):\n\n" \o chunks
                         \o "\n\nSources:\n" \o sources,
         chunks |-> chunks, sources |-> sources, parts |-> parts,
         tags |-> tags, lines |-> sl.lines]

(***************************************************************************)
(* Inputs of the context assembler                                         *)
(***************************************************************************)
CtxSources == {Absent, <<"">>, <<"kb/a.md">>}
CtxIds == {Absent, <<"x">>}
\* a chunk is a score with a content
CtxChunks ==
    { [score |-> NoneScore, content |-> Absent],
      [score |-> [sgn |-> -1, num |-> 1, den |-> 3, err |-> 0],
       content |-> <<<<" ", "a", " ", "b", "\n">>>>],
      [score |-> [sgn |-> 1, num |-> 1, den |-> 2, err |-> 0], content |-> <<<<"c">>>>] }

CtxResults ==
    { [score |-> c.score,
       metadata |-> [source |-> src, id |-> did, content |-> c.content]] :
          src \in CtxSources, did \in CtxIds, c \in CtxChunks }

RECURSIVE SeqsUpTo(_, _)
SeqsUpTo(S, n) ==
    IF n = 0 THEN {<<>>}
    ELSE LET shorter == SeqsUpTo(S, n - 1)
         IN  shorter \cup {Append(q, x) : q \in {t \in shorter : Len(t) = n - 1}, x \in S}

InitContext ==
    /\ store = <<>>
    /\ sQuery = <<>>
    /\ sK = 0
    /\ sResults = <<>>
    /\ op = "call"
    /\ ctxIn \in SeqsUpTo(CtxResults, MaxResults)
    /\ ctxOut = NoContext
    /\ cosIn = <<>>
    /\ cosOut = NoCall
    /\ env = NoEnv
    /\ ragOut = NoCall
    /\ args = <<>>
    /\ result = NoCall
    /\ added = <<>>

BuildContext ==
    /\ op = "call"
    /\ ctxOut' = build_context_from_results(ctxIn)
    /\ op' = "built"
    /\ UNCHANGED <<store, sQuery, sK, sResults, ctxIn, cosIn, cosOut, env, ragOut, args, result, added>>

NextContext == BuildContext

SpecContext == InitContext /\ [][NextContext]_vars

(***************************************************************************)
(* Properties of build_context_from_results                                *)
(***************************************************************************)
Built == op = "built"

\* the raw (source, id) pair of the n-th result
RawKey(n) == <<ctxIn[n].metadata.source, ctxIn[n].metadata.id>>

\* the position at which the key of the n-th result is first seen
FirstIdx(n) == CHOOSE j \in 1..n :
                   /\ RawKey(j) = RawKey(n)
                   /\ \A k \in 1..(j - 1) : RawKey(k) # RawKey(n)

IsFirst(n) == FirstIdx(n) = n

\* the number of distinct keys seen up to the first sight of the n-th key
LabelNo(n) == Cardinality({j \in 1..FirstIdx(n) : IsFirst(j)})

Label(n) == "[" \o ToString(n) \o "]"

\* the positions of first sight, in order
Firsts == SelectSeq([n \in 1..Len(ctxIn) |-> n], IsFirst)

ShownSource(n) ==
    LET v == ctxIn[n].metadata.source
    IN  IF v = Absent \/ v = <<"">> THEN "unknown source" ELSE v[1]

ShownId(n) ==
    LET v == ctxIn[n].metadata.id
    IN  IF v = Absent \/ v = <<"">> THEN "-" ELSE v[1]

\* C7: labels [1], [2], ... are given consecutively, in the order in which
\* each distinct (source, id) key is first seen; results with the same key
\* carry the same label; the Sources block has one line per distinct key, in
\* first-seen order, "{label} {source} (id: {id})".
C7_CitationLabels ==
    Built =>
        /\ \A n \in 1..Len(ctxIn) : ctxOut.tags[n] = Label(LabelNo(n))
        /\ \A n, k \in 1..Len(ctxIn) :
              RawKey(n) = RawKey(k) => ctxOut.tags[n] = ctxOut.tags[k]
        /\ Len(ctxOut.lines) = Cardinality({RawKey(n) : n \in 1..Len(ctxIn)})
        /\ \A n \in 1..Len(ctxOut.lines) :
              ctxOut.lines[n] = Label(n) \o " " \o ShownSource(Firsts[n])
                                    \o " (id: " \o ShownId(Firsts[n]) \o ")"
        /\ (ctxIn # <<>> => ctxOut.sources = JoinStr(ctxOut.lines, "\n"))

\* three results, the first two sharing a key and the third with a new one
C7_Witness ==
    /\ Built
    /\ Len(ctxIn) = 3
    /\ RawKey(1) = RawKey(2)
    /\ RawKey(3) # RawKey(1)
    /\ ctxOut.tags = <<"[1]", "[1]", "[2]">>
    /\ Len(ctxOut.lines) = 2

\* what " Score=..." suffix each score of the inputs must give
ExpectedSuffix(score) ==
    CASE score = NoneScore -> ""
      [] score = [sgn |-> -1, num |-> 1, den |-> 3, err |-> 0] -> " Score=-0.5774"
      [] score = [sgn |-> 1, num |-> 1, den |-> 2, err |-> 0] -> " Score=0.7071"

\* t is chars without its leading and trailing whitespace
IsTrimOf(t, chars) ==
    \E a \in 1..(Len(chars) + 1), b \in 0..Len(chars) :
        /\ t = SubSeq(chars, a, b)
        /\ \A k \in 1..(a - 1) : chars[k] \in Whitespace
        /\ \A k \in (b + 1)..Len(chars) : chars[k] \in Whitespace
        /\ (t # <<>> => t[1] \notin Whitespace /\ t[Len(t)] \notin Whitespace)

ExpectedSnippet(n) ==
    LET c == ctxIn[n].metadata.content
    IN  IF c = Absent THEN ""
        ELSE JoinStr(CHOOSE t \in {SubSeq(c[1], a, b) :
                                      a \in 1..(Len(c[1]) + 1), b \in 0..Len(c[1])} :
                         IsTrimOf(t, c[1]), "")

\* C8: the body has one chunk per result, in input order and not
\* deduplicated, the chunks separated by "\n\n---\n\n"; a chunk is the label
\* its key has in the Sources block (never "[?]"), " Score=" and the score to
\* 4 decimals when the score is numeric and nothing otherwise, a newline, and
\* the trimmed content.
C8_BodyChunks ==
    Built =>
        /\ Len(ctxOut.parts) = Len(ctxIn)
        /\ \A n \in 1..Len(ctxIn) :
              /\ ctxOut.tags[n] # "[?]"
              /\ ctxOut.lines[LabelNo(n)] =
                     ctxOut.tags[n] \o " " \o ShownSource(n)
                         \o " (id: " \o ShownId(n) \o ")"
              /\ ctxOut.parts[n] =
                     ctxOut.tags[n] \o ExpectedSuffix(ctxIn[n].score)
                         \o "\n" \o ExpectedSnippet(n)
        /\ (ctxIn # <<>> => ctxOut.chunks = JoinStr(ctxOut.parts, "\n\n---\n\n"))

\* two results with one key, both rendered: one with a numeric score and a
\* content that has whitespace to trim, one with no score
C8_Witness ==
    /\ Built
    /\ Len(ctxIn) = 2
    /\ RawKey(1) = RawKey(2)
    /\ ctxIn[1].score = [sgn |-> -1, num |-> 1, den |-> 3, err |-> 0]
    /\ ctxIn[2].score = NoneScore
    /\ ctxOut.parts = <<"[1] Score=-0.5774\na b", "[1]\n">>
    /\ ctxOut.chunks = "[1] Score=-0.5774\na b\n\n---\n\n[1]\n"

\* C9: the empty result sequence gives exactly the two placeholders in the
\* wrapper; a non-empty one gives neither placeholder in place of the body or
\* of the Sources block.
C9_EmptyPlaceholders ==
    Built =>
        /\ ctxOut.context = "Retrieved Context (top matches):\n\n" \o ctxOut.chunks
                                \o "\n\nSources:\n" \o ctxOut.sources
        /\ (ctxIn = <<>> =>
              ctxOut.context = "Retrieved Context (top matches):\n\n(no relevant context found)\n\nSources:\n(none)")
        /\ (ctxIn # <<>> =>
              /\ ctxOut.chunks # "(no relevant context found)"
              /\ ctxOut.chunks # ""
              /\ ctxOut.sources # "(none)")

C9_Witness ==
    /\ Built
    /\ ctxIn = <<>>
    /\ ctxOut.chunks = "(no relevant context found)"
    /\ ctxOut.sources = "(none)"

Lacks(n) == ctxIn[n].metadata.source = Absent \/ ctxIn[n].metadata.id = Absent

\* C10: a result that lacks source and/or id is assembled all the same, with
\* "unknown source" / "-" on its Sources line, and two results carry the same
\* label if and only if their raw (source, id) pairs are equal, also when
\* their Sources lines read the same after the placeholders are put in.
C10_RawKeyDedup ==
    Built =>
        /\ \A n, k \in 1..Len(ctxIn) :
              (ctxOut.tags[n] = ctxOut.tags[k]) <=> (RawKey(n) = RawKey(k))
        /\ \A n \in 1..Len(ctxIn) :
              Lacks(n) =>
                  ctxOut.lines[LabelNo(n)] =
                      Label(LabelNo(n)) \o " "
                          \o (IF ctxIn[n].metadata.source = Absent
                              THEN "unknown source" ELSE ShownSource(n))
                          \o " (id: "
                          \o (IF ctxIn[n].metadata.id = Absent
                              THEN "-" ELSE ShownId(n))
                          \o ")"

\* a result with no source and one with the empty source, neither with an
\* id: two labels, and two Sources lines that differ in the label only
C10_Witness ==
    /\ Built
    /\ Len(ctxIn) = 2
    /\ ctxIn[1].metadata.source = Absent
    /\ ctxIn[2].metadata.source = <<"">>
    /\ ctxIn[1].metadata.id = Absent
    /\ ctxIn[2].metadata.id = Absent
    /\ ctxOut.lines = <<"[1] unknown source (id: -)", "[2] unknown source (id: -)">>
    /\ ctxOut.tags = <<"[1]", "[2]">>

(***************************************************************************)
(* core/cosine_similarity.py: the standalone similarity primitive          *)
(***************************************************************************)
\* np.dot of two 1-D arrays: the shapes must agree
NpDot(a, b) ==
    IF Len(a) # Len(b) THEN Raise("ValueError") ELSE Return(Dot(a, b))

cosine_similarity(vec_a, vec_b) ==
    LET dot == NpDot(vec_a, vec_b)
    IN  IF dot.raised THEN dot
        ELSE IF NormSq(vec_a) = 0 \/ NormSq(vec_b) = 0 THEN Return(Zero)
        ELSE Return(Quotient(dot.value, NormSq(vec_a), NormSq(vec_b)))

Components == {-1, 0, 1}
CosVecs == SeqsUpTo(Components, MaxDim)

InitCosine ==
    /\ store = <<>>
    /\ sQuery = <<>>
    /\ sK = 0
    /\ sResults = <<>>
    /\ op = "call"
    /\ ctxIn = <<>>
    /\ ctxOut = NoContext
    /\ cosIn \in CosVecs \X CosVecs
    /\ cosOut = NoCall
    /\ env = NoEnv
    /\ ragOut = NoCall
    /\ args = <<>>
    /\ result = NoCall
    /\ added = <<>>

CosineSimilarity ==
    /\ op = "call"
    /\ cosOut' = cosine_similarity(cosIn[1], cosIn[2])
    /\ op' = "cosine"
    /\ UNCHANGED <<store, sQuery, sK, sResults, ctxIn, ctxOut, cosIn, env, ragOut, args, result, added>>

NextCosine == CosineSimilarity

SpecCosine == InitCosine /\ [][NextCosine]_vars

\* C6: cosine_similarity returns exactly 0.0 and does not raise for every
\* pair of vectors of different lengths and for every pair in which one
\* vector is the zero vector.
C6_CosineZeroSafe ==
    op = "cosine" =>
        ((Len(cosIn[1]) # Len(cosIn[2]) \/ ZeroNorm(cosIn[1]) \/ ZeroNorm(cosIn[2]))
            => cosOut = Return(Zero))

(***************************************************************************)
(* core/embedding.py and the embedding fallback of core/rag_pipeline.py    *)
(*                                                                         *)
(* A text that is embedded is a sequence of characters.  SHA-256 and the   *)
(* Mersenne Twister are stood for by a polynomial hash and an arithmetic    *)
(* mixing function, and uniform(-1.0, 1.0) by a draw from {-1, 0, 1}:      *)
(* what is kept is that the vector is a function of the text alone and     *)
(* has EmbeddingDim components.                                            *)
(***************************************************************************)
EmbeddingDim == 128

CharCode(c) ==
    CASE c = " " -> 32 [] c = "?" -> 63 [] c = "b" -> 98 [] c = "c" -> 99
      [] c = "e" -> 101 [] c = "h" -> 104 [] c = "t" -> 116 [] OTHER -> 1

\* int(hashlib.sha256(text.encode("utf-8")).hexdigest()[:8], 16)
RECURSIVE Seed(_)
Seed(text) ==
    IF text = <<>> THEN 7
    ELSE (31 * Seed(SubSeq(text, 1, Len(text) - 1)) + CharCode(text[Len(text)])) % 65521

\* the n-th rng.uniform(-1.0, 1.0) of random.Random(seed)
Draw(seed, n) == ((((seed + 31 * n) * (n + 17)) % 65537) % 3) - 1

\* a pseudo-embedding of half the size
FallbackEmbeddingHalfSize(text) == [n \in 1..(EmbeddingDim \div 2) |-> Draw(Seed(text), n)]

\* the deterministic pseudo-embedding of rag_pipeline:
\* [rng.uniform(-1.0, 1.0) for _ in range(128)]
FallbackEmbedding(text) == [n \in 1..EmbeddingDim |-> Draw(Seed(text), n)]

\* resp.data[0].embedding of a backend call that succeeds: the backend's own
\* vector for the text, of the backend's dimensionality
RemoteEmbedding(text) == <<(Seed(text) % 3) - 1, (Seed(text) % 2), 1>>

\* what the embedding backend does with one request
EmbedResponses == {"ok", "error", "empty"}

\* embedding.generate_embedding under the environment and the backend's
\* response to its one request
generate_embedding(text, key, resp) ==
    IF ~key THEN Raise("ValueError")
    ELSE IF resp = "error" THEN Raise("Exception")
    ELSE IF resp = "empty" THEN Raise("Exception")
    ELSE Return(RemoteEmbedding(text))

\* rag_pipeline._generate_embedding_with_fallback
_generate_embedding_with_fallback(text, key, resp) ==
    IF key THEN generate_embedding(text, key, resp)
    ELSE Return(FallbackEmbedding(text))

\* range(128) of cosine_similarity._embedding_with_fallback
CosineEmbeddingDim == 128

\* the deterministic pseudo-embedding of cosine_similarity:
\* rng = random.Random(int(h[:8], 16));
\* [rng.uniform(-1.0, 1.0) for _ in range(128)]
CosineFallbackEmbedding(text) == [n \in 1..CosineEmbeddingDim |-> Draw(Seed(text), n)]

\* cosine_similarity._embedding_with_fallback (generate_embedding imported):
\* a failure of the backend is passed over and the pseudo-embedding returned
_embedding_with_fallback(text, key, resp) ==
    LET remote == generate_embedding(text, key, resp)
    IN  IF key /\ ~remote.raised THEN remote
        ELSE Return(CosineFallbackEmbedding(text))

(***************************************************************************)
(* core/dynamic_prompting.py, core/prompting.py, core/zero_shot_prompting  *)
(***************************************************************************)
\* a condition that tells None from a str, and not "" from the other strs
TruthyExceptNone(x) == x # Absent

\* a str or None used as a condition
Truthy(x) == x # Absent /\ x # <<"">>

SystemInstructions ==
    "You are CryptoInsightAI, an expert assistant in cryptocurrencies, "
        \o "blockchains, and digital assets. "
        \o "Provide concise, factually correct answers with helpful explanations. "
        \o "Cite credible sources or context when relevant."

UserPrefix == <<"U", "s", "e", "r", ":", " ">>
AssistantPrefix == <<"A", "s", "s", "i", "s", "t", "a", "n", "t", ":", " ">>

\* history_str after the loop over the turns
RECURSIVE HistoryChars(_)
HistoryChars(history) ==
    IF history = <<>> THEN <<>>
    ELSE UserPrefix \o Head(history).user \o <<"\n">>
             \o AssistantPrefix \o Head(history).assistant \o <<"\n">>
             \o HistoryChars(Tail(history))

\* prompt_parts with the format instruction appended before the context
DynamicPromptPartsFormatFirst(user_query, conversation_history, retrieved_context, output_format) ==
    <<"System: " \o SystemInstructions>>
        \o (IF conversation_history # <<>>
            THEN <<"Conversation History:\n"
                       \o JoinStr(Strip(HistoryChars(conversation_history)), "")>>
            ELSE <<>>)
        \o (IF Truthy(output_format)
            THEN <<"Please respond in " \o output_format[1] \o " format.">>
            ELSE <<>>)
        \o (IF Truthy(retrieved_context)
            THEN <<"Additional Context:\n" \o retrieved_context[1]>>
            ELSE <<>>)
        \o <<"User: " \o user_query>>

\* prompt_parts of build_dynamic_prompt
DynamicPromptParts(user_query, conversation_history, retrieved_context, output_format) ==
    <<"System: " \o SystemInstructions>>
        \o (IF conversation_history # <<>>
            THEN <<"Conversation History:\n"
                       \o JoinStr(Strip(HistoryChars(conversation_history)), "")>>
            ELSE <<>>)
        \o (IF Truthy(retrieved_context)
            THEN <<"Additional Context:\n" \o retrieved_context[1]>>
            ELSE <<>>)
        \o (IF Truthy(output_format)
            THEN <<"Please respond in " \o output_format[1] \o " format.">>
            ELSE <<>>)
        \o <<"User: " \o user_query>>

\* the prompt composed without regard to the context passed
BuildDynamicPromptIgnoringContext(user_query, conversation_history, retrieved_context, output_format) ==
    JoinStr(DynamicPromptParts(user_query, conversation_history, Absent, output_format),
            "\n\n")

build_dynamic_prompt(user_query, conversation_history, retrieved_context, output_format) ==
    JoinStr(DynamicPromptParts(user_query, conversation_history,
                               retrieved_context, output_format), "\n\n")

\* (the dash of the SYSTEM line is written "--" here)
build_zero_shot_prompt(task_instruction, user_question, output_format, constraints) ==
    JoinStr(<<"SYSTEM: You are CryptoInsiteAI -- a concise, accurate crypto assistant.\n"
                  \o "Task instruction: " \o task_instruction>>
                \o (IF Truthy(constraints)
                    THEN <<"CONSTRAINTS: " \o constraints[1]>> ELSE <<>>)
                \o (IF Truthy(output_format)
                    THEN <<"OUTPUT FORMAT: " \o output_format[1]>> ELSE <<>>)
                \o <<"USER QUESTION: " \o user_question>>,
            "\n\n")

(***************************************************************************)
(* core/zero_shot_prompting.py: the offline answer substitute              *)
(*                                                                         *)
(* A prompt that is searched for patterns is a sequence of characters.     *)
(***************************************************************************)
\* str.lower() on one character
LowerChar(c) ==
    CASE c = "B" -> "b" [] c = "C" -> "c" [] c = "E" -> "e" [] c = "H" -> "h"
      [] c = "P" -> "p" [] c = "T" -> "t" [] c = "W" -> "w" [] OTHER -> c

\* prompt_text.lower()
Lower(text) == [i \in 1..Len(text) |-> LowerChar(text[i])]

\* pattern in q
Contains(q, pattern) ==
    \E i \in 1..(Len(q) - Len(pattern) + 1) : SubSeq(q, i, i + Len(pattern) - 1) = pattern

WhatIsBitcoin == <<"w", "h", "a", "t", " ", "i", "s", " ", "b", "i", "t", "c", "o", "i", "n">>
WhatIsBtc == <<"w", "h", "a", "t", " ", "i", "s", " ", "b", "t", "c">>
PriceOfBitcoin == <<"p", "r", "i", "c", "e", " ", "o", "f", " ", "b", "i", "t", "c", "o", "i", "n">>
BtcPrice == <<"b", "t", "c", " ", "p", "r", "i", "c", "e">>
WhatIsEthereum == <<"w", "h", "a", "t", " ", "i", "s", " ", "e", "t", "h", "e", "r", "e", "u", "m">>
Eth == <<"e", "t", "h">>
HowToBuy == <<"h", "o", "w", " ", "t", "o", " ", "b", "u", "y">>
Bitcoin == <<"b", "i", "t", "c", "o", "i", "n">>

BitcoinAnswer ==
    "Bitcoin (BTC) is a decentralized digital currency introduced in 2009. "
        \o "It runs on a proof-of-work blockchain and is used as digital store of value."
PriceAnswer == "Mocked price: BTC = $43,200 (demo). Replace with live API for real prices."
EthereumAnswer ==
    "Ethereum (ETH) is a programmable blockchain supporting smart contracts and dapps."
HowToBuyAnswer ==
    "Common steps: (1) choose an exchange, (2) create and verify account (KYC), "
        \o "(3) deposit funds, (4) place a buy order, (5) move to a secure wallet."
\* (the dash of the sentence is written "--" here)
NoPreparedAnswer == "Sorry -- I don't have a prepared answer for that in the offline demo."

\* the rules tried with the ethereum rule before the two bitcoin rules
MockEthereumFirst(prompt_text) ==
    LET q == Lower(prompt_text)
    IN  IF Contains(q, WhatIsEthereum) \/ Contains(q, Eth) THEN Return(EthereumAnswer)
        ELSE IF Contains(q, WhatIsBitcoin) \/ Contains(q, WhatIsBtc)
             THEN Return(BitcoinAnswer)
        ELSE IF Contains(q, PriceOfBitcoin) \/ Contains(q, BtcPrice)
             THEN Return(PriceAnswer)
        ELSE IF Contains(q, HowToBuy) /\ Contains(q, Bitcoin) THEN Return(HowToBuyAnswer)
        ELSE Return(NoPreparedAnswer)

mock_llm_generate(prompt_text) ==
    LET q == Lower(prompt_text)
    IN  IF Contains(q, WhatIsBitcoin) \/ Contains(q, WhatIsBtc) THEN Return(BitcoinAnswer)
        ELSE IF Contains(q, PriceOfBitcoin) \/ Contains(q, BtcPrice)
             THEN Return(PriceAnswer)
        ELSE IF Contains(q, WhatIsEthereum) \/ Contains(q, Eth) THEN Return(EthereumAnswer)
        ELSE IF Contains(q, HowToBuy) /\ Contains(q, Bitcoin) THEN Return(HowToBuyAnswer)
        ELSE Return(NoPreparedAnswer)

\* what the generation backend does with one request: it answers with a
\* text, it answers with no text (message.content is None), or it fails
GenResponses == {"ok", "no_content", "error"}

\* _create_completion(model_name), r being the backend's response
_create_completion(model_name, r) ==
    IF r = "error" THEN Raise("Exception") ELSE Return(r)

\* fallback_model
FallbackModel(preferred_model) ==
    IF preferred_model # "gpt-4o" THEN "gpt-4o" ELSE preferred_model

\* the inner try without its except clause: the first failure is final
CompletionWithoutRetry(preferred_model, r1, r2) ==
    [resp |-> _create_completion(preferred_model, r1), calls |-> <<preferred_model>>]

\* the inner try/except: resp, or the exception of the retry, and the models
\* the requests were made with; r1 and r2 are the backend's responses to the
\* first request and to the retry
Completion(preferred_model, r1, r2) ==
    LET first == _create_completion(preferred_model, r1)
    IN  IF first.raised
        THEN [resp |-> _create_completion(FallbackModel(preferred_model), r2),
              calls |-> <<preferred_model, FallbackModel(preferred_model)>>]
        ELSE [resp |-> first, calls |-> <<preferred_model>>]

\* the body of the outer try: the text of the backend, or what is raised
\* on the way to it
TryBackend(e, r1, r2) ==
    IF ~e.key THEN [resp |-> Raise("RuntimeError"), calls |-> <<>>]
    ELSE LET c == Completion(e.model, r1, r2)
         IN  IF ~c.resp.raised /\ c.resp.value = "no_content"
             THEN [resp |-> Raise("AttributeError"), calls |-> c.calls]
             ELSE c

\* zero_shot_answer.  The answer is kept as its origin: the text of the
\* backend, or mock_llm_generate(prompt_text), behind the failure notice or
\* not
zero_shot_answer(user_question, task_instruction, output_format, constraints, use_openai, e, r1, r2) ==
    LET prompt_text == build_zero_shot_prompt(task_instruction, user_question,
                                              output_format, constraints)
        mocked(calls, notice) ==
            [raised |-> FALSE, prompt |-> prompt_text, calls |-> calls,
             answer |-> [by |-> "mock_llm_generate", notice |-> notice]]
    IN  IF ~use_openai THEN mocked(<<>>, FALSE)
        ELSE LET t == TryBackend(e, r1, r2)
             IN  IF t.resp.raised THEN mocked(t.calls, TRUE)
                 ELSE [raised |-> FALSE, prompt |-> prompt_text, calls |-> t.calls,
                       answer |-> [by |-> "backend", notice |-> FALSE]]

TaskInstruction ==
    "Use the retrieved context to answer accurately. "
        \o "Prefer facts from the context; if unknown, say so. "
        \o "Cite the chunks using their bracketed tags (e.g., [1], [2]) when relevant."

(***************************************************************************)
(* core/rag_pipeline.py: add_document and query_with_rag                   *)
(***************************************************************************)
\* the merge with the arguments winning: meta.update(extra_meta) the other way
\* round
MetaArgumentsWin(text, doc_id, source, extra_meta) ==
    LET meta == [id |-> doc_id, source |-> source, content |-> <<text>>]
    IN  IF extra_meta # <<>> THEN meta @@ extra_meta ELSE meta

\* meta = {...}; if extra_meta: meta.update(extra_meta)
Meta(text, doc_id, source, extra_meta) ==
    LET meta == [id |-> doc_id, source |-> source, content |-> <<text>>]
    IN  IF extra_meta # <<>> THEN extra_meta @@ meta ELSE meta

add_document(st, text, doc_id, source, extra_meta, key, resp) ==
    LET emb == generate_embedding(text, key, resp)
    IN  IF emb.raised
        THEN [out |-> [raised |-> TRUE, call |-> "add_document", text |-> text,
                       doc_id |-> doc_id, source |-> source,
                       extra_meta |-> extra_meta, resp |-> resp, exc |-> emb.exc],
              store |-> st]
        ELSE [out |-> [raised |-> FALSE, call |-> "add_document", text |-> text,
                       doc_id |-> doc_id, source |-> source,
                       extra_meta |-> extra_meta, resp |-> resp,
                       embedding |-> emb.value],
              store |-> Append(st, [embedding |-> emb.value,
                                    metadata |-> Meta(text, doc_id, source, extra_meta)])]

query_with_rag(st, user_query, conversation_history, top_k, output_format, use_openai, e, resp, r1, r2) ==
    LET query_emb == _generate_embedding_with_fallback(user_query, e.key, resp)
    IN  IF query_emb.raised
        THEN [raised |-> TRUE, call |-> "query_with_rag", text |-> user_query,
              resp |-> resp, exc |-> query_emb.exc]
        ELSE LET results == search_similar(st, query_emb.value, top_k)
                 built == build_context_from_results(results)
                 retrieved_context == built.context
                 prompt_text ==
                     build_dynamic_prompt(JoinStr(user_query, ""), conversation_history,
                                          <<retrieved_context>>, output_format)
                 zs == zero_shot_answer(prompt_text, TaskInstruction, output_format,
                                        Absent, use_openai, e, r1, r2)
             IN  [raised |-> FALSE, call |-> "query_with_rag", text |-> user_query,
                  resp |-> resp, conversation_history |-> conversation_history,
                  top_k |-> top_k, output_format |-> output_format,
                  embedding |-> query_emb.value,
                  results |-> results, context |-> built, prompt_text |-> prompt_text,
                  prompt |-> zs.prompt, answer |-> zs.answer, calls |-> zs.calls]

(***************************************************************************)
(* Inputs of the pipeline                                                  *)
(***************************************************************************)
BtcText == <<"b", "t", "c">>
EthText == <<" ", "e", "t", "h", " ">>
Question == <<"b", "t", "c", "?">>

\* the arguments of the add_document calls
DocCalls ==
    { [text |-> BtcText, doc_id |-> <<"btc">>, source |-> <<"kb/bitcoin.md">>,
       extra_meta |-> <<>>],
      [text |-> EthText, doc_id |-> <<"eth">>, source |-> <<"kb/ethereum.md">>,
       extra_meta |-> <<>>],
      [text |-> BtcText, doc_id |-> Absent, source |-> Absent, extra_meta |-> <<>>],
      [text |-> EthText, doc_id |-> <<"btc">>, source |-> <<"kb/bitcoin.md">>,
       extra_meta |-> [content |-> <<BtcText>>, chain |-> <<"eth">>]],
      [text |-> BtcText, doc_id |-> <<"btc">>, source |-> <<"kb/bitcoin.md">>,
       extra_meta |-> [id |-> <<"eth">>, source |-> <<"kb/ethereum.md">>]] }

Queries == {Question}
Histories == {<<>>, <<[user |-> <<"h", "i">>, assistant |-> <<"h", "i", " ">>]>>}
OutputFormats == {Absent, <<"Markdown">>}
RagTopKs == {0, 2}
Models == {"gpt-4o-mini", "gpt-4o"}

InitRag ==
    /\ store = <<>>
    /\ sQuery = <<>>
    /\ sK = 0
    /\ sResults = <<>>
    /\ op = "init"
    /\ ctxIn = <<>>
    /\ ctxOut = NoContext
    /\ cosIn = <<>>
    /\ cosOut = NoCall
    /\ env \in [key : BOOLEAN, model : Models]
    /\ ragOut = NoCall
    /\ args \in [conversation_history : Histories, output_format : OutputFormats,
                 use_openai : BOOLEAN]
    /\ result = NoCall
    /\ added = <<>>

RagUnchanged ==
    UNCHANGED <<sQuery, sK, sResults, ctxIn, ctxOut, cosIn, cosOut, env, args, result>>

\* the responses that make a difference: without the key no request is made
EmbedResponsesHere == IF env.key THEN EmbedResponses ELSE {"ok"}

AddDocument ==
    \E d \in DocCalls, resp \in EmbedResponsesHere :
        LET r == add_document(store, d.text, d.doc_id, d.source, d.extra_meta,
                              env.key, resp)
        IN  /\ Len(store) < MaxDocs
            /\ store' = r.store
            /\ added' = IF r.out.raised THEN added
                        ELSE Append(added, <<r.store[Len(r.store)].embedding,
                                             r.store[Len(r.store)].metadata>>)
            /\ ragOut' = r.out
            /\ op' = "add_document"
            /\ RagUnchanged

\* query_with_rag(user_query, conversation_history, top_k, output_format,
\* use_openai), the caller passing the history, the format and the switch it
\* was given at the start
QueryWithRag ==
    \E user_query \in Queries, top_k \in RagTopKs, resp \in EmbedResponsesHere :
        \E r1 \in (IF args.use_openai /\ env.key /\ resp = "ok"
                   THEN GenResponses ELSE {"ok"}) :
          \E r2 \in (IF r1 = "error" THEN GenResponses ELSE {"ok"}) :
            /\ ragOut' = query_with_rag(store, user_query, args.conversation_history,
                                        top_k, args.output_format, args.use_openai,
                                        env, resp, r1, r2)
            /\ op' = "query_with_rag"
            /\ UNCHANGED <<store, added>>
            /\ RagUnchanged

NextRag == AddDocument \/ QueryWithRag

SpecRag == InitRag /\ [][NextRag]_vars

(***************************************************************************)
(* Properties of the embedding step                                        *)
(***************************************************************************)
\* the backend gave no vector to the last pipeline call
BackendUnavailable == ~env.key \/ ragOut.resp # "ok"

\* C4: no embedding request of the pipeline propagates a backend failure:
\* with the backend unconfigured or failing, add_document and query_with_rag
\* end normally, having embedded the text with the deterministic fallback.
C4_EmbeddingNeverRaises ==
    (op \in {"add_document", "query_with_rag"} /\ BackendUnavailable) =>
        /\ ~ragOut.raised
        /\ ragOut.embedding = FallbackEmbedding(ragOut.text)

(***************************************************************************)
(* build_dynamic_prompt on its own: the arguments are drawn, the call is   *)
(* made, and a call that was given a context is made again with the        *)
(* context left out (retrieved_context=None).                              *)
(***************************************************************************)
MaxTurns == 2

\* the turns of a history; the assistant's text may end in white space or
\* be empty
Turns ==
    { [user |-> <<"a", "?">>, assistant |-> <<"A", " ">>],
      [user |-> <<"b">>, assistant |-> <<>>] }

PromptHistories == SeqsUpTo(Turns, MaxTurns)
PromptContexts == {Absent, <<"">>, <<"BTC is a coin.">>}
PromptFormats == {Absent, <<"">>, <<"Markdown">>}
PromptQueries == {"", "What is BTC?"}

InitPrompt ==
    /\ store = <<>>
    /\ sQuery = <<>>
    /\ sK = 0
    /\ sResults = <<>>
    /\ op = "call"
    /\ ctxIn = <<>>
    /\ ctxOut = NoContext
    /\ cosIn = <<>>
    /\ cosOut = NoCall
    /\ env = NoEnv
    /\ ragOut = NoCall
    /\ args \in [user_query : PromptQueries, conversation_history : PromptHistories,
                 retrieved_context : PromptContexts, output_format : PromptFormats]
    /\ result = NoCall
    /\ added = <<>>

PromptUnchanged ==
    UNCHANGED <<store, sQuery, sK, sResults, ctxIn, ctxOut, cosIn, cosOut, env, ragOut, args, added>>

\* build_dynamic_prompt(user_query, conversation_history, retrieved_context,
\*                      output_format)
BuildDynamicPrompt ==
    /\ op = "call"
    /\ result' = [parts |-> DynamicPromptParts(args.user_query, args.conversation_history,
                                               args.retrieved_context, args.output_format),
                  prompt |-> build_dynamic_prompt(args.user_query, args.conversation_history,
                                                  args.retrieved_context, args.output_format),
                  before |-> <<>>]
    /\ op' = "build_dynamic_prompt"
    /\ PromptUnchanged

\* build_dynamic_prompt(user_query, conversation_history, None, output_format)
\* after the call that was given the context; before keeps the sections of
\* that first call
BuildWithoutContext ==
    /\ op = "build_dynamic_prompt"
    /\ args.retrieved_context # Absent
    /\ result' = [parts |-> DynamicPromptParts(args.user_query, args.conversation_history,
                                               Absent, args.output_format),
                  prompt |-> build_dynamic_prompt(args.user_query, args.conversation_history,
                                                  Absent, args.output_format),
                  before |-> result.parts]
    /\ op' = "build_dynamic_prompt_without_context"
    /\ PromptUnchanged

NextPrompt == BuildDynamicPrompt \/ BuildWithoutContext

SpecPrompt == InitPrompt /\ [][NextPrompt]_vars

(***************************************************************************)
(* Properties of the prompt composer                                       *)
(***************************************************************************)
\* an optional argument that was given, and is not the empty string
Supplied(x) == Len(x) = 1 /\ x[1] # ""

\* the lines of a history: two for each turn, in the order of the turns
TurnLines(h) ==
    [i \in 1..(2 * Len(h)) |->
        IF i % 2 = 1 THEN UserPrefix \o h[(i + 1) \div 2].user
        ELSE AssistantPrefix \o h[i \div 2].assistant]

RECURSIVE JoinLines(_)
JoinLines(lines) ==
    IF lines = <<>> THEN <<>>
    ELSE IF Len(lines) = 1 THEN lines[1]
    ELSE lines[1] \o <<"\n">> \o JoinLines(Tail(lines))

\* the sections a prompt may have
SystemSection == "System: " \o SystemInstructions
HistorySection(h) ==
    "Conversation History:\n" \o JoinStr(RStrip(JoinLines(TurnLines(h))), "")
ContextSection(c) == "Additional Context:\n" \o (IF c = Absent THEN "" ELSE c[1])
FormatSection(f) == "Please respond in " \o (IF f = Absent THEN "" ELSE f[1]) \o " format."
UserSection(q) == "User: " \o q

AllSupplied ==
    /\ args.conversation_history # <<>>
    /\ Supplied(args.retrieved_context)
    /\ Supplied(args.output_format)

\* C11: with a non-empty history, a context and an output format, the prompt
\* is exactly the five sections System, Conversation History, Additional
\* Context, format instruction, User, in that order, joined by blank lines;
\* the same call without the context gives the same sections but for the
\* Additional Context one, joined in the same way.
C11_FiveSections ==
    /\ (op = "build_dynamic_prompt" /\ AllSupplied) =>
           /\ result.parts = <<SystemSection,
                               HistorySection(args.conversation_history),
                               ContextSection(args.retrieved_context),
                               FormatSection(args.output_format),
                               UserSection(args.user_query)>>
           /\ result.prompt =
                  result.parts[1] \o "\n\n" \o result.parts[2] \o "\n\n"
                      \o result.parts[3] \o "\n\n" \o result.parts[4] \o "\n\n"
                      \o result.parts[5]
    /\ (op = "build_dynamic_prompt_without_context" /\ AllSupplied) =>
           /\ Len(result.before) = 5
           /\ result.parts = <<result.before[1], result.before[2],
                               result.before[4], result.before[5]>>
           /\ result.prompt =
                  result.before[1] \o "\n\n" \o result.before[2] \o "\n\n"
                      \o result.before[4] \o "\n\n" \o result.before[5]

C11_Witness ==
    /\ op = "build_dynamic_prompt_without_context"
    /\ AllSupplied
    /\ Len(args.conversation_history) = 2
    /\ Len(result.before) = 5
    /\ Len(result.parts) = 4

\* the number of optional sections the arguments call for
Wanted ==
    (IF args.conversation_history # <<>> THEN 1 ELSE 0)
        + (IF Supplied(args.retrieved_context) THEN 1 ELSE 0)
        + (IF Supplied(args.output_format) THEN 1 ELSE 0)

HasSection(s) == \E i \in 1..Len(result.parts) : result.parts[i] = s

\* C12: whatever history, context and output format are given or left out,
\* an optional section is in the prompt iff its value is given and not
\* empty; the System section is the first and "User: {user_query}" the
\* last; the history section shows the turns as "User: " and "Assistant: "
\* lines in the order of the turns (the block is trimmed, so the last line
\* has no trailing white space).
C12_OptionalSections ==
    op = "build_dynamic_prompt" =>
        /\ result.parts[1] = SystemSection
        /\ result.parts[Len(result.parts)] = UserSection(args.user_query)
        /\ Len(result.parts) = 2 + Wanted
        /\ (args.conversation_history # <<>>)
               <=> HasSection(HistorySection(args.conversation_history))
        /\ Supplied(args.retrieved_context)
               <=> HasSection(ContextSection(args.retrieved_context))
        /\ Supplied(args.output_format)
               <=> HasSection(FormatSection(args.output_format))
        /\ result.prompt = JoinStr(result.parts, "\n\n")

C12_Witness ==
    /\ op = "build_dynamic_prompt"
    /\ args.conversation_history = <<>>
    /\ args.retrieved_context = <<"">>
    /\ Supplied(args.output_format)
    /\ Len(result.parts) = 3

(***************************************************************************)
(* zero_shot_answer on its own: the environment, the arguments and the     *)
(* responses the backend will give to the first request and to the retry   *)
(* are drawn, and the call is made.                                        *)
(***************************************************************************)
UserQuestions == {"What is BTC?", "gm"}
Constraints == {Absent, <<"Be brief.">>}
DefaultTaskInstruction == "Answer the user's question about cryptocurrency concisely."

InitAnswer ==
    /\ store = <<>>
    /\ sQuery = <<>>
    /\ sK = 0
    /\ sResults = <<>>
    /\ op = "call"
    /\ ctxIn = <<>>
    /\ ctxOut = NoContext
    /\ cosIn = <<>>
    /\ cosOut = NoCall
    /\ env \in [key : BOOLEAN, model : Models]
    /\ ragOut = NoCall
    /\ args \in [user_question : UserQuestions, output_format : OutputFormats,
                 constraints : Constraints, use_openai : BOOLEAN,
                 r1 : GenResponses, r2 : GenResponses]
    /\ result = NoCall
    /\ added = <<>>

ZeroShotAnswer ==
    /\ op = "call"
    /\ result' = zero_shot_answer(args.user_question, DefaultTaskInstruction,
                                  args.output_format, args.constraints,
                                  args.use_openai, env, args.r1, args.r2)
    /\ op' = "zero_shot_answer"
    /\ UNCHANGED <<store, sQuery, sK, sResults, ctxIn, ctxOut, cosIn, cosOut, env, ragOut, args, added>>

NextAnswer == ZeroShotAnswer

SpecAnswer == InitAnswer /\ [][NextAnswer]_vars

(***************************************************************************)
(* Properties of the generation step                                       *)
(***************************************************************************)
Requested == op = "zero_shot_answer" /\ args.use_openai

FromMock == result.answer = [by |-> "mock_llm_generate", notice |-> TRUE]

\* C13: a call with use_openai=True makes at most two requests to the
\* backend: none without the key, one if the first does not fail, two if it
\* fails; it always returns, and when the key is missing or both requests
\* fail the answer is the one of the offline mock.
C13_AtMostOneRetry ==
    Requested =>
        /\ ~result.raised
        /\ Len(result.calls) <= 2
        /\ ~env.key => (result.calls = <<>> /\ FromMock)
        /\ (env.key /\ args.r1 # "error") => Len(result.calls) = 1
        /\ (env.key /\ args.r1 = "error") => Len(result.calls) = 2
        /\ (env.key /\ args.r1 = "error" /\ args.r2 = "error") => FromMock
        /\ (env.key /\ args.r1 = "error" /\ args.r2 = "ok") => result.answer.by = "backend"

C13_Witness ==
    /\ Requested
    /\ env.key
    /\ args.r1 = "error"
    /\ args.r2 = "error"
    /\ Len(result.calls) = 2
    /\ FromMock

\* C14: a retry is made with a model identifier other than the one of the
\* request that failed, whatever OPENAI_MODEL is.
C14_RetryWithAlternateModel ==
    (Requested /\ Len(result.calls) = 2) => result.calls[2] # result.calls[1]

(***************************************************************************)
(* mock_llm_generate on its own: a prompt is drawn, the call is made, and  *)
(* it is made once more with the same prompt.                              *)
(***************************************************************************)
MaxFragments == 2

\* pieces of prompts, in mixed case; a pattern may also come about across
\* two pieces
Fragments ==
    { <<"W", "h", "a", "t", " ", "i", "s", " ", "B", "i", "t", "c", "o", "i", "n">>,
      <<"w", "h", "a", "t", " ", "i", "s", " ">>,
      <<"B", "T", "C", " ", "p", "r", "i", "c", "e">>,
      <<"P", "r", "i", "c", "e", " ", "o", "f", " ", "B", "i", "t", "c", "o", "i", "n">>,
      <<"E", "t", "h", "e", "r", "e", "u", "m">>,
      <<"m", "e", "t", "h", "o", "d">>,
      <<"H", "o", "w", " ", "t", "o", " ", "b", "u", "y">>,
      <<"b", "i", "t", "c", "o", "i", "n">>,
      <<"h", "e", "l", "l", "o">> }

RECURSIVE Flatten(_)
Flatten(seqs) == IF seqs = <<>> THEN <<>> ELSE Head(seqs) \o Flatten(Tail(seqs))

MockPrompts == {Flatten(fs) : fs \in SeqsUpTo(Fragments, MaxFragments)}

InitMock ==
    /\ store = <<>>
    /\ sQuery = <<>>
    /\ sK = 0
    /\ sResults = <<>>
    /\ op = "call"
    /\ ctxIn = <<>>
    /\ ctxOut = NoContext
    /\ cosIn = <<>>
    /\ cosOut = NoCall
    /\ env = NoEnv
    /\ ragOut = NoCall
    /\ args \in [prompt_text : MockPrompts]
    /\ result = NoCall
    /\ added = <<>>

MockUnchanged ==
    UNCHANGED <<store, sQuery, sK, sResults, ctxIn, ctxOut, cosIn, cosOut, env, ragOut, args, added>>

\* mock_llm_generate(prompt_text)
MockLlmGenerate ==
    /\ op = "call"
    /\ result' = [out |-> mock_llm_generate(args.prompt_text), before |-> <<>>]
    /\ op' = "mock_llm_generate"
    /\ MockUnchanged

\* the same call once more; before keeps what the first call gave
MockLlmGenerateAgain ==
    /\ op = "mock_llm_generate"
    /\ result' = [out |-> mock_llm_generate(args.prompt_text), before |-> <<result.out>>]
    /\ op' = "mock_llm_generate_again"
    /\ MockUnchanged

NextMock == MockLlmGenerate \/ MockLlmGenerateAgain

SpecMock == InitMock /\ [][NextMock]_vars

(***************************************************************************)
(* Properties of the offline answer substitute                             *)
(***************************************************************************)
\* the i-th rule applies to the lower-cased prompt q
RuleApplies(i, q) ==
    CASE i = 1 -> Contains(q, WhatIsBitcoin) \/ Contains(q, WhatIsBtc)
      [] i = 2 -> Contains(q, PriceOfBitcoin) \/ Contains(q, BtcPrice)
      [] i = 3 -> Contains(q, WhatIsEthereum) \/ Contains(q, Eth)
      [] i = 4 -> Contains(q, HowToBuy) /\ Contains(q, Bitcoin)

RuleAnswers == <<BitcoinAnswer, PriceAnswer, EthereumAnswer, HowToBuyAnswer>>

\* the rules that apply to the prompt of the call
Applying == {i \in 1..4 : RuleApplies(i, Lower(args.prompt_text))}

FirstApplying == CHOOSE i \in Applying : \A j \in Applying : i <= j

\* C15: mock_llm_generate returns for every prompt; its answer is the one of
\* the first rule, in the order bitcoin definition, bitcoin price, ethereum,
\* how to buy, whose pattern occurs in the lower-cased prompt, and the "no
\* prepared answer" sentence exactly when no rule applies; the same prompt
\* gives the same answer again.
C15_FirstMatchingRule ==
    (op \in {"mock_llm_generate", "mock_llm_generate_again"}) =>
        /\ ~result.out.raised
        /\ Applying # {} => result.out.value = RuleAnswers[FirstApplying]
        /\ (result.out.value = NoPreparedAnswer) <=> (Applying = {})
        /\ op = "mock_llm_generate_again" => result.before = <<result.out>>

C15_Witness ==
    /\ op = "mock_llm_generate_again"
    /\ Applying = {1, 2}
    /\ result.out.value = BitcoinAnswer

(***************************************************************************)
(* The two embedders with a fallback, called on one text in one            *)
(* environment, in any order and more than once.                           *)
(***************************************************************************)
MaxCalls == 2

EmbedTexts == {<<>>, BtcText, EthText, Question, Eth}

InitEmbed ==
    /\ store = <<>>
    /\ sQuery = <<>>
    /\ sK = 0
    /\ sResults = <<>>
    /\ op = "call"
    /\ ctxIn = <<>>
    /\ ctxOut = NoContext
    /\ cosIn = <<>>
    /\ cosOut = NoCall
    /\ env \in [key : BOOLEAN, model : {"gpt-4o-mini"}]
    /\ ragOut = NoCall
    /\ args \in [text : EmbedTexts]
    /\ result = [log |-> <<>>]
    /\ added = <<>>

EmbedUnchanged ==
    UNCHANGED <<store, sQuery, sK, sResults, ctxIn, ctxOut, cosIn, cosOut, env, ragOut, args, added>>

\* rag_pipeline._generate_embedding_with_fallback(text)
RagEmbeddingWithFallback ==
    \E resp \in EmbedResponsesHere :
        /\ Len(result.log) < MaxCalls
        /\ result' = [log |-> Append(result.log,
                          [fn |-> "rag_pipeline",
                           out |-> _generate_embedding_with_fallback(args.text, env.key, resp)])]
        /\ op' = "_generate_embedding_with_fallback"
        /\ EmbedUnchanged

\* cosine_similarity._embedding_with_fallback(text)
CosineEmbeddingWithFallback ==
    \E resp \in EmbedResponsesHere :
        /\ Len(result.log) < MaxCalls
        /\ result' = [log |-> Append(result.log,
                          [fn |-> "cosine_similarity",
                           out |-> _embedding_with_fallback(args.text, env.key, resp)])]
        /\ op' = "_embedding_with_fallback"
        /\ EmbedUnchanged

NextEmbed == RagEmbeddingWithFallback \/ CosineEmbeddingWithFallback

SpecEmbed == InitEmbed /\ [][NextEmbed]_vars

Answered == op = "query_with_rag" /\ ~ragOut.raised

\* the store holds exactly two documents, of different (source, id) pairs
TwoDocuments ==
    /\ Len(store) = 2
    /\ <<store[1].metadata.source, store[1].metadata.id>>
           # <<store[2].metadata.source, store[2].metadata.id>>

\* the Sources line of the n-th result under the label [n]
SourceLine(n) ==
    LET m == ragOut.results[n].metadata
    IN  "[" \o ToString(n) \o "] "
            \o (IF m.source = Absent \/ m.source = <<"">> THEN "unknown source"
                ELSE m.source[1])
            \o " (id: " \o (IF m.id = Absent \/ m.id = <<"">> THEN "-" ELSE m.id[1]) \o ")"

\* C17: with exactly two documents of different (source, id) pairs in the
\* store, a query with top_k = 2 retrieves two results, one for each
\* document, and the Sources block of its context has exactly two lines:
\* [1] with the source and id of the first result, [2] with those of the
\* second.
C17_TwoDocumentsTwoSources ==
    (Answered /\ TwoDocuments /\ ragOut.top_k = 2) =>
        /\ Len(ragOut.results) = 2
        /\ {ragOut.results[n].metadata : n \in 1..2} = {store[n].metadata : n \in 1..2}
        /\ ragOut.results[1].metadata # ragOut.results[2].metadata
        /\ ScoreLeq(ragOut.results[2].score, ragOut.results[1].score)
        /\ ragOut.context.lines = <<SourceLine(1), SourceLine(2)>>
        /\ SourceLine(1) # SourceLine(2)
        /\ ragOut.context.sources = SourceLine(1) \o "\n" \o SourceLine(2)
        /\ ragOut.context.tags = <<"[1]", "[2]">>

C17_Witness ==
    /\ Answered
    /\ TwoDocuments
    /\ ragOut.top_k = 2
    /\ Len(ragOut.results) = 2
    /\ ragOut.results[1].metadata = store[2].metadata
    /\ ragOut.results[1].score # ragOut.results[2].score

(***************************************************************************)
(* vector_store._cosine_similarity on its own: a query and an embedding    *)
(* are drawn and scored as search_similar scores a record, and the query   *)
(* is scored against a record that holds the query's own embedding.        *)
(***************************************************************************)
SimVecs == SeqsUpTo(Components, MaxDim) \cup {<<3, 3>>, <<1, 1, 1>>}

InitSimilarity ==
    /\ store = <<>>
    /\ sQuery = <<>>
    /\ sK = 0
    /\ sResults = <<>>
    /\ op = "call"
    /\ ctxIn = <<>>
    /\ ctxOut = NoContext
    /\ cosIn = <<>>
    /\ cosOut = NoCall
    /\ env = NoEnv
    /\ ragOut = NoCall
    /\ args \in [query_embedding : SimVecs, embedding : SimVecs]
    /\ result = NoCall
    /\ added = <<>>

\* _cosine_similarity(query_embedding, rec["embedding"])
StoreCosineSimilarity ==
    /\ op = "call"
    /\ result' = [score |-> _cosine_similarity(args.query_embedding, args.embedding),
                  own |-> _cosine_similarity(args.query_embedding, args.query_embedding)]
    /\ op' = "_cosine_similarity"
    /\ UNCHANGED <<store, sQuery, sK, sResults, ctxIn, ctxOut, cosIn, cosOut, env, ragOut, args, added>>

NextSimilarity == StoreCosineSimilarity

SpecSimilarity == InitSimilarity /\ [][NextSimilarity]_vars

(***************************************************************************)
(* Properties of the store's similarity                                    *)
(***************************************************************************)
\* the doubles 1.0 and -1.0
One == [sgn |-> 1, num |-> 1, den |-> 1, err |-> 0]
MinusOne == [sgn |-> -1, num |-> 1, den |-> 1, err |-> 0]

\* C18: the similarity of two vectors of the same length lies in [-1, 1];
\* that of a vector that is not zero with itself is 1; hence no embedding
\* scores higher against a query that is not zero than the query's own
\* embedding does.
C18_CosineBounds ==
    (op = "_cosine_similarity" /\ Len(args.query_embedding) = Len(args.embedding)) =>
        /\ ScoreLeq(MinusOne, result.score)
        /\ ScoreLeq(result.score, One)
        /\ ~ZeroNorm(args.query_embedding) =>
               /\ result.own = One
               /\ ScoreLeq(result.score, result.own)

(***************************************************************************)
(* Properties of the store's content                                       *)
(***************************************************************************)
\* C19: the store is the sequence of the (embedding, metadata) pairs added
\* since the last clear, in the order they were added, each as it was given
\* and of an embedding of any length: so after a clear it is empty, an add
\* has put one record behind those there were, and a search has left it as
\* it was.
C19_StoreIsInsertionLog ==
    /\ Len(store) = Len(added)
    /\ \A i \in 1..Len(store) :
           store[i] = [embedding |-> added[i][1], metadata |-> added[i][2]]
    /\ op = "clear" => store = <<>>

\* a search whose results are in another order than the records it ranked,
\* the store holding embeddings of two lengths
C19_Witness ==
    /\ op = "search"
    /\ Len(store) = 3
    /\ Len(store[1].embedding) # Len(store[2].embedding)
    /\ Len(sResults) = 3
    /\ sResults[1].rec = 3
    /\ sResults[2].rec = 1

\* the prompt a query is to compose: its sections, the context among them
ComposedPrompt ==
    SystemSection \o "\n\n"
        \o (IF ragOut.conversation_history # <<>>
            THEN HistorySection(ragOut.conversation_history) \o "\n\n" ELSE "")
        \o "Additional Context:\n" \o ragOut.context.context \o "\n\n"
        \o (IF Supplied(ragOut.output_format)
            THEN FormatSection(ragOut.output_format) \o "\n\n" ELSE "")
        \o UserSection(JoinStr(ragOut.text, ""))

\* C20: the prompt that query_with_rag composes has an "Additional Context:"
\* section, holding the context built from the results, whatever the store
\* holds and whatever top_k is; with an empty store or top_k <= 0 the
\* context is the wrapper around the two placeholders; the prompt returned
\* is the zero-shot prompt whose user question is the composed prompt.
C20_ContextAlwaysPresent ==
    Answered =>
        /\ ragOut.prompt_text = ComposedPrompt
        /\ ragOut.context.context # ""
        /\ (store = <<>> \/ ragOut.top_k <= 0) =>
               /\ ragOut.results = <<>>
               /\ ragOut.context.context =
                      "Retrieved Context (top matches):\n\n(no relevant context found)\n\nSources:\n(none)"
        /\ ragOut.prompt =
               "SYSTEM: You are CryptoInsiteAI -- a concise, accurate crypto assistant.\n"
                   \o "Task instruction: " \o TaskInstruction \o "\n\n"
                   \o (IF Supplied(ragOut.output_format)
                       THEN "OUTPUT FORMAT: " \o ragOut.output_format[1] \o "\n\n" ELSE "")
                   \o "USER QUESTION: " \o ragOut.prompt_text

\* a query of a store that holds documents, with top_k = 0
C20_Witness ==
    /\ Answered
    /\ Len(store) = 2
    /\ ragOut.top_k = 0
    /\ ragOut.conversation_history # <<>>
    /\ ragOut.output_format = Absent
    /\ ragOut.context.sources = "(none)"

(***************************************************************************)
(* Properties of add_document                                              *)
(***************************************************************************)
\* the last pipeline call was an add_document that returned
Stored == op = "add_document" /\ ~ragOut.raised

\* the fields add_document recognises, with the value each gets from the
\* arguments of the call recorded in o
Recognised == {"id", "source", "content"}

FromArguments(o, k) ==
    IF k = "id" THEN o.doc_id ELSE IF k = "source" THEN o.source ELSE <<o.text>>

\* metadata m is the recognised fields of call o merged with its extra_meta,
\* extra_meta winning where both have the key
MergedExtraWins(m, o) ==
    /\ DOMAIN m = Recognised \cup DOMAIN o.extra_meta
    /\ \A k \in DOMAIN o.extra_meta : m[k] = o.extra_meta[k]
    /\ \A k \in Recognised \ DOMAIN o.extra_meta : m[k] = FromArguments(o, k)

\* C21: an add_document that returns appends exactly one record to the
\* store, leaving the earlier records as they were; the record holds the
\* embedding of the text argument, and its metadata has id, source and content
\* equal to the doc_id, source and text arguments, merged with extra_meta, the
\* value of extra_meta replacing the recognised one where the keys collide.
\* (A call whose embedding request raises stores nothing: that is C4.)
C21_MetadataMergeExtraWins ==
    [][(op' = "add_document" /\ ~ragOut'.raised)
          => /\ Len(store') = Len(store) + 1
             /\ SubSeq(store', 1, Len(store)) = store
             /\ store'[Len(store')].embedding = ragOut'.embedding
             /\ MergedExtraWins(store'[Len(store')].metadata, ragOut')]_vars

\* two documents were added with colliding extra_meta: the first stored a
\* content that is not the text that was embedded, the second an id and a
\* source (the citation key) that are not the doc_id and source arguments
C21_Witness ==
    /\ Stored
    /\ Len(store) = 2
    /\ store[1].metadata.content = <<BtcText>>
    /\ store[1].embedding = RemoteEmbedding(EthText)
    /\ "chain" \in DOMAIN store[1].metadata
    /\ ragOut.doc_id = <<"btc">>
    /\ ragOut.source = <<"kb/bitcoin.md">>
    /\ store[2].metadata.id = <<"eth">>
    /\ store[2].metadata.source = <<"kb/ethereum.md">>
    /\ store[2].metadata.content = <<ragOut.text>>

====
